---- MODULE Spec2Model ----
(***************************************************************************)
(* BlueALSA RFCOMM worker (src/src/rfcomm.c): the buffered AT reader, the  *)
(* handler table and dispatch, the HFP service level connection state      *)
(* machine of both roles and the poll loop of rfcomm_thread.               *)
(***************************************************************************)
EXTENDS Integers, Sequences, FiniteSets, TLC

(***************************************************************************)
(* enum hfp_state, in the order of the switch of rfcomm_thread.            *)
(***************************************************************************)
HFP_DISCONNECTED == 0
HFP_SLC_BRSF_SET == 1
HFP_SLC_BRSF_SET_OK == 2
HFP_SLC_BAC_SET_OK == 3
HFP_SLC_CIND_TEST == 4
HFP_SLC_CIND_TEST_OK == 5
HFP_SLC_CIND_GET == 6
HFP_SLC_CIND_GET_OK == 7
HFP_SLC_CMER_SET_OK == 8
HFP_SLC_CONNECTED == 9
HFP_CC_BCS_SET == 10
HFP_CC_BCS_SET_OK == 11
HFP_CC_CONNECTED == 12
HFP_CONNECTED == 13

\* Codec identifiers carried by +BCS / +BAC.
HFP_CODEC_UNDEFINED == 0
HFP_CODEC_CVSD == 1
HFP_CODEC_MSBC == 2

\* Feature bits of the +BRSF value that announce codec negotiation.
HFP_HF_FEAT_CODEC == 128
HFP_AG_FEAT_CODEC == 512

\* The build has wideband speech compiled in (#if ENABLE_MSBC).
ENABLE_MSBC == TRUE

\* Retry ceiling of the SLC procedure and the bounded poll timeout.
RFCOMM_SLC_RETRIES == 2
RFCOMM_SLC_TIMEOUT == 1000

\* Largest value of conn.state the model follows (resp_ok_cb adds 1 each time).
MaxState == 14
\* Largest number of AT messages one read() of the socket returns.
MaxBatch == 2

\* The descriptor of the external AT handler, when one is attached.
ExtFd == 5

NULL == "NULL"

(***************************************************************************)
(* AT messages: struct bt_at {type, command, value}.                       *)
(***************************************************************************)
AT_TYPE_CMD_SET == "CMD_SET"
AT_TYPE_CMD_GET == "CMD_GET"
AT_TYPE_CMD_TEST == "CMD_TEST"
AT_TYPE_RESP == "RESP"
AT_TYPE_RAW == "RAW"

At(type, command, value) == [type |-> type, command |-> command, value |-> value]

\* No message: reader.at before the first parse.
NoAt == At(NULL, "", "")

\* What the text of a value converts to with atoi(): the leading decimal digits.
Atoi(v) ==
    CASE v = "0" -> 0
      [] v = "1" -> 1
      [] v = "2" -> 2
      [] v = "3" -> 3
      [] v = "4" -> 4
      [] v = "5" -> 5
      [] v = "1,2" -> 1
      [] v = "0,3" -> 0
      [] v = "3,0,0,1,0" -> 3
      [] v = "640" -> 640
      [] OTHER -> 0

\* x & bit, for a single bit.
HasBit(x, bit) == (x \div bit) % 2 = 1

\* A buffer position at_parse() rejects.
BadMsg == At("BAD", "", "")

\* The well-formed messages the peer is taken to send: an AG (the peer of the HF
\* role) sends result codes and the odd command, an HF (the peer of the AG role)
\* sends commands and the odd result code.
PeerMsgs(r) ==
    IF r = "HF"
    THEN { At(AT_TYPE_RESP, "", "OK"), At(AT_TYPE_RESP, "", "ERROR"),
           At(AT_TYPE_RESP, "+BRSF", "0"), At(AT_TYPE_RESP, "+BRSF", "640"),
           At(AT_TYPE_RESP, "+CIND", "(call),(battchg)"), At(AT_TYPE_RESP, "+CIND", "0,3"),
           At(AT_TYPE_RESP, "+BCS", "1"),
           At(AT_TYPE_CMD_SET, "+VGM", "1"), At(AT_TYPE_CMD_SET, "+XYZ", "1"),
           At(AT_TYPE_RESP, "+XYZ", "1") }
    ELSE { At(AT_TYPE_CMD_SET, "+BRSF", "0"), At(AT_TYPE_CMD_SET, "+BRSF", "640"),
           At(AT_TYPE_CMD_SET, "+BAC", "1"), At(AT_TYPE_CMD_SET, "+BAC", "1,2"),
           At(AT_TYPE_CMD_TEST, "+CIND", ""), At(AT_TYPE_CMD_GET, "+CIND", ""),
           At(AT_TYPE_CMD_SET, "+CMER", "3,0,0,1,0"),
           At(AT_TYPE_CMD_SET, "+BCS", "1"), At(AT_TYPE_CMD_SET, "+BCS", "2"),
           At(AT_TYPE_CMD_SET, "+VGM", "1"), At(AT_TYPE_CMD_SET, "+XYZ", "1"),
           At(AT_TYPE_RESP, "", "OK"), At(AT_TYPE_RESP, "+BCS", "1") }

\* What one read() can leave in the buffer: 1..MaxBatch messages, any of which may
\* be text at_parse() rejects.
RECURSIVE SeqsUpTo(_, _)
SeqsUpTo(S, n) ==
    IF n = 0 THEN {<<>>}
    ELSE LET shorter == SeqsUpTo(S, n - 1)
         IN shorter \cup { Append(s, x) : s \in { u \in shorter : Len(u) = n - 1 }, x \in S }

Batches(r) == SeqsUpTo(PeerMsgs(r) \cup {BadMsg}, MaxBatch) \ {<<>>}

(***************************************************************************)
(* Indicators (enum hfp_ind) and the map built from the +CIND test answer. *)
(***************************************************************************)
HFP_IND_NULL == "NULL_IND"
HFP_IND_CALL == "call"
HFP_IND_BATTCHG == "battchg"

ZeroIndMap == <<HFP_IND_NULL, HFP_IND_NULL>>

\* t->rfcomm.hfp_inds[], indexed by the indicator kind, before any value came.
ZeroInds == [kind \in {HFP_IND_NULL, HFP_IND_CALL, HFP_IND_BATTCHG} |-> 0]

\* at_parse_cind(): the indicator names of the list in their order, or failure
\* (the map is then left as it was).
at_parse_cind(value, map) ==
    IF value = "(call),(battchg)" THEN <<HFP_IND_CALL, HFP_IND_BATTCHG>> ELSE map

\* The comma separated fields of a value, as strchr(tmp, ',') walks them.
Fields(v) ==
    CASE v = "0,3" -> <<"0", "3">>
      [] v = "3,0" -> <<"3", "0">>
      [] v = "5,1" -> <<"5", "1">>
      [] v = "4,5" -> <<"4", "5">>
      [] v = "2,5,1" -> <<"2", "5", "1">>
      [] v = "1,0,4" -> <<"1", "0", "4">>
      [] v = "1,1" -> <<"1", "1">>
      [] v = "2,3" -> <<"2", "3">>
      [] v = "0,1" -> <<"0", "1">>
      [] v = "3,1" -> <<"3", "1">>
      [] v = "1,2" -> <<"1", "2">>
      [] v = "(call),(battchg)" -> <<"(call)", "(battchg)">>
      [] v = "3,0,0,1,0" -> <<"3", "0", "0", "1", "0">>
      [] OTHER -> <<v>>

Min(a, b) == IF a < b THEN a ELSE b

(***************************************************************************)
(* Notifications (bluealsa_dbus_transport_update) and errno values.        *)
(***************************************************************************)
UPDATE_BATTERY == "BATTERY"
UPDATE_VOLUME == "VOLUME"
UPDATE_SAMPLING_CODEC == "SAMPLING|CODEC"
\* ba_transport_send_signal(t->rfcomm.sco, TRANSPORT_PING), kept with the notifications.
SIGNAL_PING == "PING"

\* errno values a failed write() or read() of the socket is taken to leave.
IoErrnos == {"ECONNRESET", "EPIPE"}

(***************************************************************************)
(* Handlers: struct rfcomm_handler {type, command, callback}.              *)
(***************************************************************************)
Handler(type, command, callback) ==
    [type |-> type, command |-> command, callback |-> callback]

\* conn.handler == NULL
NoHandler == Handler(NULL, "", NULL)

rfcomm_handler_resp_ok == Handler(AT_TYPE_RESP, "", "resp_ok_cb")
rfcomm_handler_resp_bcs_ok == Handler(AT_TYPE_RESP, "", "resp_bcs_ok_cb")
rfcomm_handler_cind_test == Handler(AT_TYPE_CMD_TEST, "+CIND", "cind_test_cb")
rfcomm_handler_cind_get == Handler(AT_TYPE_CMD_GET, "+CIND", "cind_get_cb")
rfcomm_handler_cind_resp_test == Handler(AT_TYPE_RESP, "+CIND", "cind_resp_test_cb")
rfcomm_handler_cind_resp_get == Handler(AT_TYPE_RESP, "+CIND", "cind_resp_get_cb")
rfcomm_handler_cmer_set == Handler(AT_TYPE_CMD_SET, "+CMER", "cmer_set_cb")
rfcomm_handler_ciev_resp == Handler(AT_TYPE_RESP, "+CIEV", "ciev_resp_cb")
rfcomm_handler_bia_set == Handler(AT_TYPE_CMD_SET, "+BIA", "bia_set_cb")
rfcomm_handler_brsf_set == Handler(AT_TYPE_CMD_SET, "+BRSF", "brsf_set_cb")
rfcomm_handler_brsf_resp == Handler(AT_TYPE_RESP, "+BRSF", "brsf_resp_cb")
rfcomm_handler_vgm_set == Handler(AT_TYPE_CMD_SET, "+VGM", "vgm_set_cb")
rfcomm_handler_vgs_set == Handler(AT_TYPE_CMD_SET, "+VGS", "vgs_set_cb")
rfcomm_handler_btrh_get == Handler(AT_TYPE_CMD_GET, "+BTRH", "btrh_get_cb")
rfcomm_handler_bcs_set == Handler(AT_TYPE_CMD_SET, "+BCS", "bcs_set_cb")
rfcomm_handler_bcs_resp == Handler(AT_TYPE_RESP, "+BCS", "bcs_resp_cb")
rfcomm_handler_bac_set == Handler(AT_TYPE_CMD_SET, "+BAC", "bac_set_cb")
rfcomm_handler_iphoneaccev_set == Handler(AT_TYPE_CMD_SET, "+IPHONEACCEV", "iphoneaccev_set_cb")
rfcomm_handler_xapl_set == Handler(AT_TYPE_CMD_SET, "+XAPL", "xapl_set_cb")

\* The static table of rfcomm_get_callback(), in its order.
handlers ==
    << rfcomm_handler_cind_test, rfcomm_handler_cind_get, rfcomm_handler_cmer_set,
       rfcomm_handler_ciev_resp, rfcomm_handler_bia_set, rfcomm_handler_brsf_set,
       rfcomm_handler_vgm_set, rfcomm_handler_vgs_set, rfcomm_handler_btrh_get,
       rfcomm_handler_bcs_set, rfcomm_handler_bcs_resp, rfcomm_handler_bac_set,
       rfcomm_handler_iphoneaccev_set, rfcomm_handler_xapl_set >>

\* A handler is for a message when its type and its command are the message's.
HandlerMatches(h, at) == h.type = at.type /\ h.command = at.command

\* A lookup whose table also holds the one-shot handler of the plain result code.
rfcomm_get_callback_with_ok(at) ==
    LET tbl == <<rfcomm_handler_resp_ok>> \o handlers
        hits == { i \in 1..Len(tbl) : HandlerMatches(tbl[i], at) }
    IN IF hits = {} THEN NULL
       ELSE tbl[CHOOSE i \in hits : \A j \in hits : i <= j].callback

\* rfcomm_get_callback(): the callback of the first table entry for the message,
\* or NULL.
rfcomm_get_callback(at) ==
    LET hits == { i \in 1..Len(handlers) : HandlerMatches(handlers[i], at) }
    IN IF hits = {} THEN NULL
       ELSE handlers[CHOOSE i \in hits : \A j \in hits : i <= j].callback

(***************************************************************************)
(* Callbacks.  Each takes the connection c (struct rfcomm_conn), the       *)
(* transport fields tt, the message at, and the fate of its writes: the    *)
(* first k calls of rfcomm_write_at() succeed and the next one, if any,    *)
(* fails with errno e.  The result holds the updated c and tt, the return  *)
(* code, errno, the messages written and the notifications emitted.        *)
(***************************************************************************)
\* The fates of up to two writes: how many succeed and the errno of the one that fails.
Fates == (0..2) \X IoErrnos

Ret(c, tt, rc, en, wr, notes) ==
    [c |-> c, t |-> tt, rc |-> rc, errno |-> en, wr |-> wr, notes |-> notes]

RespOK == At(AT_TYPE_RESP, "", "OK")
RespERROR == At(AT_TYPE_RESP, "", "ERROR")

\* A state update without the comparison that guards it.
AdvanceToUnguarded(c, s) == [c EXCEPT !.state = s]

\* if (c->state < s) rfcomm_set_hfp_state(c, s);
AdvanceTo(c, s) == IF c.state < s THEN [c EXCEPT !.state = s] ELSE c

\* The common shape "write ws in turn, return -1 at the first failure, then
\* apply the update and return 0".
WriteThen(c, tt, ws, k, e, c2, notes) ==
    IF k < Len(ws) THEN Ret(c, tt, -1, e, SubSeq(ws, 1, k), <<>>)
    ELSE Ret(c2, tt, 0, "", ws, notes)

rfcomm_handler_resp_ok_cb(c, tt, at, k, e) ==
    IF at.value = "OK" THEN Ret([c EXCEPT !.state = c.state + 1], tt, 0, "", <<>>, <<>>)
    ELSE IF at.value = "ERROR" THEN Ret(c, tt, -1, "ENOTSUP", <<>>, <<>>)
    ELSE Ret(c, tt, 0, "", <<>>, <<>>)

rfcomm_handler_cind_test_cb(c, tt, at, k, e) ==
    WriteThen(c, tt, <<At(AT_TYPE_RESP, "+CIND", "(call),(callsetup),(service),(signal),(roam),(battchg),(callheld)"), RespOK>>,
              k, e, AdvanceTo(c, HFP_SLC_CIND_TEST_OK), <<>>)

rfcomm_handler_cind_get_cb(c, tt, at, k, e) ==
    WriteThen(c, tt, <<At(AT_TYPE_RESP, "+CIND", "0,0,0,0,0,0,0"), RespOK>>,
              k, e, AdvanceTo(c, HFP_SLC_CIND_GET_OK), <<>>)

rfcomm_handler_cind_resp_test_cb(c, tt, at, k, e) ==
    Ret(AdvanceTo([c EXCEPT !.hfp_ind_map = at_parse_cind(at.value, @)], HFP_SLC_CIND_TEST),
        tt, 0, "", <<>>, <<>>)

\* The loop over the map: position i stores atoi() of the i-th field under the
\* kind hfp_ind_map[i], and a position mapped to the battery charge also sets the
\* battery level and sends one battery notification; it stops after the last field
\* of the value or the last position of the map.
RECURSIVE CindGetLoop(_, _, _, _, _)
CindGetLoop(map, fs, i, tt, ns) ==
    IF i > Min(Len(map), Len(fs)) THEN [t |-> tt, notes |-> ns]
    ELSE LET v == Atoi(fs[i])
             batt == map[i] = HFP_IND_BATTCHG
             t1 == [tt EXCEPT !.hfp_inds[map[i]] = v]
             t2 == IF batt THEN [t1 EXCEPT !.battery_level = (v * 100) \div 5] ELSE t1
         IN CindGetLoop(map, fs, i + 1, t2, IF batt THEN Append(ns, UPDATE_BATTERY) ELSE ns)

\* A loop that never moves to the next field: every position gets the first value.
rfcomm_handler_cind_resp_get_cb_first(c, tt, at, k, e) ==
    LET fs == Fields(at.value)
        r == CindGetLoop(c.hfp_ind_map, [i \in 1..Len(fs) |-> fs[1]], 1, tt, <<>>)
    IN Ret(AdvanceTo(c, HFP_SLC_CIND_GET), r.t, 0, "", <<>>, r.notes)

rfcomm_handler_cind_resp_get_cb(c, tt, at, k, e) ==
    LET r == CindGetLoop(c.hfp_ind_map, Fields(at.value), 1, tt, <<>>)
    IN Ret(AdvanceTo(c, HFP_SLC_CIND_GET), r.t, 0, "", <<>>, r.notes)

rfcomm_handler_cmer_set_cb(c, tt, at, k, e) ==
    WriteThen(c, tt, <<RespOK>>, k, e, AdvanceTo(c, HFP_SLC_CMER_SET_OK), <<>>)

rfcomm_handler_bia_set_cb(c, tt, at, k, e) ==
    WriteThen(c, tt, <<RespOK>>, k, e, c, <<>>)

rfcomm_handler_brsf_set_cb(c, tt, at, k, e) ==
    LET f == Atoi(at.value)
        t2 == [tt EXCEPT !.hfp_features = f,
                         !.codec = IF ~HasBit(f, HFP_HF_FEAT_CODEC) THEN HFP_CODEC_CVSD ELSE @]
        ws == <<At(AT_TYPE_RESP, "+BRSF", "features_rfcomm_ag"), RespOK>>
    IN IF k < Len(ws) THEN Ret(c, t2, -1, e, SubSeq(ws, 1, k), <<>>)
       ELSE Ret(AdvanceTo(c, HFP_SLC_BRSF_SET_OK), t2, 0, "", ws, <<>>)

rfcomm_handler_brsf_resp_cb(c, tt, at, k, e) ==
    LET f == Atoi(at.value)
        t2 == [tt EXCEPT !.hfp_features = f,
                         !.codec = IF ~HasBit(f, HFP_AG_FEAT_CODEC) THEN HFP_CODEC_CVSD ELSE @]
    IN Ret(AdvanceTo(c, HFP_SLC_BRSF_SET), t2, 0, "", <<>>, <<>>)

\* The gain itself is not followed (see Signal): what is left of the two gain
\* handlers is the acknowledgement and the volume notification.
rfcomm_handler_vgm_set_cb(c, tt, at, k, e) ==
    WriteThen(c, tt, <<RespOK>>, k, e, c, <<UPDATE_VOLUME>>)

rfcomm_handler_vgs_set_cb(c, tt, at, k, e) ==
    WriteThen(c, tt, <<RespOK>>, k, e, c, <<UPDATE_VOLUME>>)

rfcomm_handler_btrh_get_cb(c, tt, at, k, e) ==
    WriteThen(c, tt, <<RespOK>>, k, e, c, <<>>)

\* A codec selection handler that acknowledges whatever codec the message names.
rfcomm_handler_bcs_set_cb_any(c, tt, at, k, e) ==
    WriteThen(c, tt, <<RespOK>>, k, e, AdvanceTo(c, HFP_CC_BCS_SET_OK), <<>>)

rfcomm_handler_bcs_set_cb(c, tt, at, k, e) ==
    IF tt.codec # Atoi(at.value)
    THEN WriteThen(c, tt, <<RespERROR>>, k, e, c, <<>>)
    ELSE WriteThen(c, tt, <<RespOK>>, k, e, AdvanceTo(c, HFP_CC_BCS_SET_OK), <<>>)

rfcomm_handler_resp_bcs_ok_cb(c, tt, at, k, e) ==
    LET r == rfcomm_handler_resp_ok_cb(c, tt, at, k, e)
    IN IF r.rc # 0 THEN r ELSE [r EXCEPT !.notes = <<UPDATE_SAMPLING_CODEC>>]

rfcomm_handler_bcs_resp_cb(c, tt, at, k, e) ==
    LET t2 == [tt EXCEPT !.codec = Atoi(at.value)]
    IN IF k < 1 THEN Ret(c, t2, -1, e, <<>>, <<>>)
       ELSE Ret(AdvanceTo([c EXCEPT !.handler = rfcomm_handler_resp_bcs_ok], HFP_CC_BCS_SET),
                t2, 0, "", <<At(AT_TYPE_CMD_SET, "+BCS", at.value)>>, <<>>)

rfcomm_handler_bac_set_cb(c, tt, at, k, e) ==
    LET hasMsbc == \E i \in 1..Len(Fields(at.value)) :
                       Atoi(Fields(at.value)[i]) = HFP_CODEC_MSBC
        c2 == IF ENABLE_MSBC /\ hasMsbc THEN [c EXCEPT !.msbc = TRUE] ELSE c
    IN IF k < 1 THEN Ret(c2, tt, -1, e, <<>>, <<>>)
       ELSE Ret(AdvanceTo(c2, HFP_SLC_BAC_SET_OK), tt, 0, "", <<RespOK>>, <<>>)

\* The accessory state and identification these two record are device metadata
\* outside the connection; what is left is the acknowledgement.
rfcomm_handler_iphoneaccev_set_cb(c, tt, at, k, e) ==
    WriteThen(c, tt, <<RespOK>>, k, e, c, <<>>)

rfcomm_handler_xapl_set_cb(c, tt, at, k, e) ==
    LET resp == IF at.value = "05ac-1234-0100,10" THEN "+XAPL=BlueALSA,0" ELSE "ERROR"
    IN WriteThen(c, tt, <<At(AT_TYPE_RESP, "", resp)>>, k, e, c, <<>>)

\* callback(&conn, &reader.at) for the callback named cb.
\* The word c->hfp_ind_map[index - 1] yields when index - 1 is no position of the
\* map: the read is outside the array and gives whatever lies there.  Of all the
\* words it can give, the three that are indicator kinds are followed, chosen by k.
OutsideMap(k) ==
    CASE k = 0 -> HFP_IND_NULL
      [] k = 1 -> HFP_IND_CALL
      [] OTHER -> HFP_IND_BATTCHG

\* sscanf(at->value, "%u,%u", &index, &value) == 2, then hfp_inds[hfp_ind_map[index - 1]]
\* = value with no test of index.  For index = 0 the unsigned index - 1 is UINT_MAX;
\* here it is -1, outside the map all the same.
rfcomm_handler_ciev_resp_cb(c, tt, at, k, e) ==
    LET fs == Fields(at.value)
    IN IF Len(fs) < 2 THEN Ret(c, tt, 0, "", <<>>, <<>>)
       ELSE LET index == Atoi(fs[1])
                value == Atoi(fs[2])
                kind == IF index - 1 \in 0..(Len(c.hfp_ind_map) - 1)
                        THEN c.hfp_ind_map[index] ELSE OutsideMap(k)
                t1 == [tt EXCEPT !.hfp_inds[kind] = value]
            IN CASE kind = HFP_IND_CALL -> Ret(c, t1, 0, "", <<>>, <<SIGNAL_PING>>)
                 [] kind = HFP_IND_BATTCHG ->
                      Ret(c, [t1 EXCEPT !.battery_level = (value * 100) \div 5], 0, "",
                          <<>>, <<UPDATE_BATTERY>>)
                 [] OTHER -> Ret(c, t1, 0, "", <<>>, <<>>)

Call(cb, c, tt, at, k, e) ==
    CASE cb = "resp_ok_cb" -> rfcomm_handler_resp_ok_cb(c, tt, at, k, e)
      [] cb = "resp_bcs_ok_cb" -> rfcomm_handler_resp_bcs_ok_cb(c, tt, at, k, e)
      [] cb = "cind_test_cb" -> rfcomm_handler_cind_test_cb(c, tt, at, k, e)
      [] cb = "cind_get_cb" -> rfcomm_handler_cind_get_cb(c, tt, at, k, e)
      [] cb = "cind_resp_test_cb" -> rfcomm_handler_cind_resp_test_cb(c, tt, at, k, e)
      [] cb = "cind_resp_get_cb" -> rfcomm_handler_cind_resp_get_cb(c, tt, at, k, e)
      [] cb = "cmer_set_cb" -> rfcomm_handler_cmer_set_cb(c, tt, at, k, e)
      [] cb = "ciev_resp_cb" -> rfcomm_handler_ciev_resp_cb(c, tt, at, k, e)
      [] cb = "bia_set_cb" -> rfcomm_handler_bia_set_cb(c, tt, at, k, e)
      [] cb = "brsf_set_cb" -> rfcomm_handler_brsf_set_cb(c, tt, at, k, e)
      [] cb = "brsf_resp_cb" -> rfcomm_handler_brsf_resp_cb(c, tt, at, k, e)
      [] cb = "vgm_set_cb" -> rfcomm_handler_vgm_set_cb(c, tt, at, k, e)
      [] cb = "vgs_set_cb" -> rfcomm_handler_vgs_set_cb(c, tt, at, k, e)
      [] cb = "btrh_get_cb" -> rfcomm_handler_btrh_get_cb(c, tt, at, k, e)
      [] cb = "bcs_set_cb" -> rfcomm_handler_bcs_set_cb(c, tt, at, k, e)
      [] cb = "bcs_resp_cb" -> rfcomm_handler_bcs_resp_cb(c, tt, at, k, e)
      [] cb = "bac_set_cb" -> rfcomm_handler_bac_set_cb(c, tt, at, k, e)
      [] cb = "iphoneaccev_set_cb" -> rfcomm_handler_iphoneaccev_set_cb(c, tt, at, k, e)
      [] cb = "xapl_set_cb" -> rfcomm_handler_xapl_set_cb(c, tt, at, k, e)

(***************************************************************************)
(* The SLC step of one loop iteration: the two switches of rfcomm_thread.  *)
(* rc = -1 stands for "goto ioerror" after a failed write.                 *)
(***************************************************************************)
\* rfcomm_write_at() of one command followed by conn.handler = h.
SendExpect(c, tt, cmd, h, k, e) ==
    IF k < 1 THEN Ret(c, tt, -1, e, <<>>, <<>>)
    ELSE Ret([c EXCEPT !.handler = h], tt, 0, "", <<cmd>>, <<>>)

\* rfcomm_set_hfp_state(&conn, HFP_CONNECTED) and the notification that follows.
SetConnected(c, tt) ==
    Ret([c EXCEPT !.state = HFP_CONNECTED], tt, 0, "", <<>>, <<UPDATE_SAMPLING_CODEC>>)

Expect(c, tt, h) == Ret([c EXCEPT !.handler = h], tt, 0, "", <<>>, <<>>)

SlcStepHF(c, tt, k, e) ==
    LET codec == HasBit(tt.hfp_features, HFP_AG_FEAT_CODEC)
        cindTest == SendExpect(c, tt, At(AT_TYPE_CMD_TEST, "+CIND", ""),
                               rfcomm_handler_cind_resp_test, k, e)
    IN CASE c.state = HFP_DISCONNECTED ->
              SendExpect(c, tt, At(AT_TYPE_CMD_SET, "+BRSF", "features_rfcomm_hf"),
                         rfcomm_handler_brsf_resp, k, e)
         [] c.state = HFP_SLC_BRSF_SET -> Expect(c, tt, rfcomm_handler_resp_ok)
         [] c.state = HFP_SLC_BRSF_SET_OK ->
              IF codec
              THEN SendExpect(c, tt, At(AT_TYPE_CMD_SET, "+BAC", IF ENABLE_MSBC THEN "1,2" ELSE "1"),
                              rfcomm_handler_resp_ok, k, e)
              ELSE cindTest
         [] c.state = HFP_SLC_BAC_SET_OK -> cindTest
         [] c.state = HFP_SLC_CIND_TEST -> Expect(c, tt, rfcomm_handler_resp_ok)
         [] c.state = HFP_SLC_CIND_TEST_OK ->
              SendExpect(c, tt, At(AT_TYPE_CMD_GET, "+CIND", ""),
                         rfcomm_handler_cind_resp_get, k, e)
         [] c.state = HFP_SLC_CIND_GET -> Expect(c, tt, rfcomm_handler_resp_ok)
         [] c.state = HFP_SLC_CIND_GET_OK ->
              SendExpect(c, tt, At(AT_TYPE_CMD_SET, "+CMER", "3,0,0,1,0"),
                         rfcomm_handler_resp_ok, k, e)
         [] c.state \in {HFP_SLC_CMER_SET_OK, HFP_SLC_CONNECTED} ->
              IF codec THEN Ret([c EXCEPT !.state = HFP_SLC_CONNECTED], tt, 0, "", <<>>, <<>>)
              ELSE SetConnected(c, tt)
         [] c.state \in {HFP_CC_BCS_SET, HFP_CC_BCS_SET_OK, HFP_CC_CONNECTED} ->
              SetConnected(c, tt)
         [] OTHER -> Ret(c, tt, 0, "", <<>>, <<>>)

SlcStepAG(c, tt, k, e) ==
    LET codec == HasBit(tt.hfp_features, HFP_HF_FEAT_CODEC)
        offer == IF ENABLE_MSBC /\ c.msbc THEN HFP_CODEC_MSBC ELSE HFP_CODEC_CVSD
        c1 == [c EXCEPT !.state = HFP_SLC_CONNECTED]
    IN CASE c.state \in {HFP_SLC_CMER_SET_OK, HFP_SLC_CONNECTED} ->
              IF codec
              THEN IF k < 1 THEN Ret(c1, tt, -1, e, <<>>, <<>>)
                   ELSE Ret([c1 EXCEPT !.handler = rfcomm_handler_bcs_set],
                            [tt EXCEPT !.codec = offer], 0, "",
                            <<At(AT_TYPE_RESP, "+BCS", IF offer = HFP_CODEC_MSBC THEN "2" ELSE "1")>>,
                            <<>>)
              ELSE SetConnected(c, tt)
         [] c.state \in {HFP_CC_BCS_SET, HFP_CC_BCS_SET_OK, HFP_CC_CONNECTED} ->
              SetConnected(c, tt)
         [] OTHER -> Ret(c, tt, 0, "", <<>>, <<>>)

\* if (conn.state != conn.state_prev) { conn.state_prev = conn.state; conn.retries = 0; }
ResetRetries(c) ==
    IF c.state # c.state_prev THEN [c EXCEPT !.state_prev = c.state, !.retries = 0] ELSE c

\* A ceiling that is reached one attempt early.
RetriesExceededEarly(c) == c.retries >= RFCOMM_SLC_RETRIES

\* if (conn.retries > RFCOMM_SLC_RETRIES) { errno = ETIMEDOUT; goto ioerror; }
RetriesExceeded(c) == c.retries > RFCOMM_SLC_RETRIES

\* if (conn.handler != NULL) { timeout = RFCOMM_SLC_TIMEOUT; conn.retries++; }
CountRetry(c) == IF c.handler # NoHandler THEN [c EXCEPT !.retries = c.retries + 1] ELSE c

\* An ioerror label that ends the thread on every errno.
FatalAlways(en) == TRUE

\* The errno values on which the ioerror label ends the thread.
Fatal(en) == en \in {"ECONNABORTED", "ECONNRESET", "ENOTCONN", "ENOTSUP", "ETIMEDOUT"}

(***************************************************************************)
(* State of one run of rfcomm_thread.                                      *)
(***************************************************************************)
VARIABLES
    role,         \* t->type.profile: "HF" or "AG"
    conn,         \* struct rfcomm_conn
    t,            \* the transport fields the thread reads and writes
    reader,       \* struct at_reader: the parsed message and the unparsed rest
    pfds,         \* pfds[2].fd and the revents poll() left, until they are tested
    timeout,      \* int timeout, while the coming poll() reads it (-1 otherwise)
    cancelstate,  \* the thread's cancel state
    pc,           \* where the thread is
    errno,        \* errno of the last step's jump to ioerror or fail ("" without one)
    wr,           \* messages written to the RFCOMM socket by the last step
    fwd,          \* the descriptor the last step forwarded its message to, if it did
    notes,        \* notifications emitted by the last step
    hist          \* history of the run, read by the properties only (waited: the
                  \* current iteration has been through poll())

vars == <<role, conn, t, reader, pfds, timeout, cancelstate, pc, errno, wr, fwd, notes, hist>>

\* The messages of a full HF handshake with an AG that negotiates the codec.
E2EScript ==
    << At(AT_TYPE_RESP, "+BRSF", "640"), RespOK, RespOK,
       At(AT_TYPE_RESP, "+CIND", "(call),(battchg)"), RespOK,
       At(AT_TYPE_RESP, "+CIND", "0,3"), RespOK, RespOK,
       At(AT_TYPE_RESP, "+BCS", "1"), RespOK >>

CountOf(seq, x) == Cardinality({ i \in 1..Len(seq) : seq[i] = x })

\* History after a step that emitted the notifications ns without dispatching.
HistNotes(h, ns) ==
    [h EXCEPT !.snotes = IF h.script < 0 THEN 0 ELSE @ + CountOf(ns, UPDATE_SAMPLING_CODEC)]

\* History after the message at was dispatched with the notifications ns.
HistDispatch(h, at, hit, ns) ==
    LET on == h.script >= 0 /\ h.script < Len(E2EScript) /\ E2EScript[h.script + 1] = at
    IN [h EXCEPT !.script = IF on THEN @ + 1 ELSE -1,
                 !.snotes = IF on THEN @ + CountOf(ns, UPDATE_SAMPLING_CODEC) ELSE 0,
                 !.last_hit = IF hit THEN at ELSE NoAt,
                 !.silent = FALSE]

Noisy(h) == [h EXCEPT !.silent = FALSE]
OffScript(h) == [h EXCEPT !.silent = FALSE, !.script = -1, !.snotes = 0]

Init ==
    /\ role \in {"HF", "AG"}
    /\ conn = [state |-> HFP_DISCONNECTED, state_prev |-> HFP_DISCONNECTED, retries |-> 0,
               handler |-> NoHandler, msbc |-> FALSE,
               hfp_ind_map |-> ZeroIndMap]
    /\ \E fd \in {-1, ExtFd} :
           t = [hfp_features |-> 0, codec |-> HFP_CODEC_UNDEFINED, handler_fd |-> fd,
                hfp_inds |-> ZeroInds, battery_level |-> -1]
    /\ reader = [at |-> NoAt, next |-> <<>>]
    /\ pfds = [fd2 |-> -1, sig |-> FALSE, bt |-> "", ext |-> ""]
    /\ timeout = -1
    /\ cancelstate = "DISABLE"
    /\ pc = "loop"
    /\ errno = ""
    /\ wr = <<>>
    /\ fwd = <<>>
    /\ notes = <<>>
    /\ hist = [silent |-> TRUE, sent |-> 0, script |-> IF role = "HF" THEN 0 ELSE -1,
               snotes |-> 0, last_hit |-> NoAt, waited |-> FALSE]

\* The ioerror label: a fatal errno ends the thread (fail: cleanup, return), any
\* other is logged and the loop goes on with its next iteration.
AfterIoError(en) == IF Fatal(en) THEN "done" ELSE "loop"

GotoIoError(en) ==
    /\ pc' = AfterIoError(en)
    /\ errno' = en

\* Lines 781, 825, 830, 846: where the revents b of the socket and x of the external
\* handler lead.
Route(b, x) ==
    IF b = "POLLIN" THEN "read" ELSE IF b = "POLLHUP" THEN "hup"
    ELSE IF x # "" THEN "ext" ELSE "loop"

NoError == errno' = ""

NoOutput == wr' = <<>> /\ fwd' = <<>> /\ notes' = <<>>

(***************************************************************************)
(* Lines 606-739: the state-machine step at the top of an iteration.       *)
(***************************************************************************)
SlcStep ==
    /\ pc = "loop"
    /\ fwd' = <<>>
    /\ UNCHANGED <<role, reader, pfds, cancelstate>>
    /\ IF conn.state = HFP_CONNECTED
       THEN /\ timeout' = -1
            /\ pc' = IF reader.next # <<>> THEN "read" ELSE "poll"
            /\ wr' = <<>> /\ notes' = <<>>
            /\ hist' = [hist EXCEPT !.waited = FALSE]
            /\ UNCHANGED <<conn, t>>
            /\ NoError
       ELSE LET c1 == ResetRetries(conn)
                h1 == [hist EXCEPT !.sent = IF conn.state # conn.state_prev THEN 0 ELSE @,
                                   !.waited = FALSE]
            IN IF RetriesExceeded(c1)
               THEN /\ conn' = c1
                    /\ GotoIoError("ETIMEDOUT")
                    /\ timeout' = -1
                    /\ wr' = <<>> /\ notes' = <<>>
                    /\ hist' = h1
                    /\ UNCHANGED t
               ELSE \E r \in { IF role = "HF" THEN SlcStepHF(c1, t, f[1], f[2])
                                 ELSE SlcStepAG(c1, t, f[1], f[2]) : f \in Fates } :
                         /\ t' = r.t
                         /\ wr' = r.wr
                         /\ notes' = r.notes
                         /\ IF r.rc = -1
                            THEN /\ conn' = r.c
                                 /\ GotoIoError(r.errno)
                                 /\ timeout' = -1
                                 /\ hist' = OffScript(h1)
                            ELSE /\ conn' = CountRetry(r.c)
                                 /\ timeout' = IF r.c.handler # NoHandler /\ reader.next = <<>>
                                               THEN RFCOMM_SLC_TIMEOUT ELSE -1
                                 /\ pc' = IF reader.next # <<>> THEN "read" ELSE "poll"
                                 /\ hist' = HistNotes([h1 EXCEPT !.sent = @ + Len(r.wr)], r.notes)
                                 /\ NoError

(***************************************************************************)
(* Lines 741-755: the readiness wait.                                      *)
(***************************************************************************)
\* pthread_setcancelstate(ENABLE); pfds[2].fd = t->rfcomm.handler_fd; poll() blocks.
PollEnter ==
    /\ pc = "poll"
    /\ cancelstate' = "ENABLE"
    /\ pfds' = [pfds EXCEPT !.fd2 = t.handler_fd]
    /\ pc' = "wait"
    /\ NoOutput
    /\ UNCHANGED <<role, conn, t, reader, timeout, hist>>
    /\ NoError

\* poll() returns 0: continue, the cancel state left as it is.
PollTimeout ==
    /\ pc = "wait"
    /\ timeout # -1
    /\ pfds' = [pfds EXCEPT !.sig = FALSE, !.bt = "", !.ext = ""]
    /\ pc' = "loop"
    /\ timeout' = -1
    /\ NoOutput
    /\ UNCHANGED <<role, conn, t, reader, cancelstate, hist>>
    /\ NoError

\* poll() returns -1 with EINTR: continue.
PollEintr ==
    /\ pc = "wait"
    /\ pc' = "loop"
    /\ timeout' = -1
    /\ hist' = Noisy(hist)
    /\ NoOutput
    /\ UNCHANGED <<role, conn, t, reader, pfds, cancelstate>>
    /\ NoError

\* poll() returns -1 with another errno: goto fail.
PollError ==
    /\ pc = "wait"
    /\ errno' = "ENOMEM"
    /\ cancelstate' = "DISABLE"
    /\ pc' = "done"
    /\ hist' = Noisy(hist)
    /\ NoOutput
    /\ UNCHANGED <<role, conn, t, reader, pfds, timeout>>

\* poll() reports at least one descriptor; a descriptor of -1 is never reported.
\* Without a signal the test of line 757 falls through to the socket's revents.
PollReady ==
    /\ pc = "wait"
    /\ \E s \in BOOLEAN, b \in {"", "POLLIN", "POLLHUP"}, x \in {"", "POLLIN", "POLLHUP"} :
         /\ s \/ b # "" \/ x # ""
         /\ pfds.fd2 = -1 => x = ""
         /\ pfds' = [pfds EXCEPT !.sig = s, !.bt = IF s THEN b ELSE "", !.ext = x]
         /\ pc' = IF s THEN "signal" ELSE Route(b, x)
    /\ cancelstate' = "DISABLE"
    /\ timeout' = -1
    /\ hist' = [Noisy(hist) EXCEPT !.waited = TRUE]
    /\ NoOutput
    /\ UNCHANGED <<role, conn, t, reader>>
    /\ NoError

\* pthread_cancel() by the owner of the transport takes effect while the cancel
\* state is enabled; the cleanup handler runs and the thread is gone.
Cancel ==
    /\ pc \notin {"done", "cancelled"}
    /\ cancelstate = "ENABLE"
    /\ pc' = "cancelled"
    /\ hist' = Noisy(hist)
    /\ NoOutput
    /\ UNCHANGED <<role, conn, t, reader, pfds, timeout, cancelstate>>
    /\ NoError

(***************************************************************************)
(* Lines 757-779: a signal from the transport.  The gains of the SCO       *)
(* transport are written by other threads at any time, so whether the      *)
(* cached conn.mic_gain / conn.spk_gain differ from them (mic, spk) is any *)
(* of the two answers; the gain values themselves are not followed.        *)
(***************************************************************************)
Signal ==
    /\ pc = "signal"
    /\ \E sig \in {"TRANSPORT_SET_VOLUME", "TRANSPORT_PING"}, mic \in BOOLEAN, spk \in BOOLEAN :
         LET ws == IF sig # "TRANSPORT_SET_VOLUME" THEN <<>>
                   ELSE (IF mic THEN <<At(AT_TYPE_RESP, "", "+VGM=gain")>> ELSE <<>>)
                        \o (IF spk THEN <<At(AT_TYPE_RESP, "", "+VGS=gain")>> ELSE <<>>)
         IN \E k \in 0..Len(ws) :
              /\ wr' = SubSeq(ws, 1, k)
              /\ IF k < Len(ws)
                 THEN \E e \in IoErrnos : GotoIoError(e)
                 ELSE pc' = Route(pfds.bt, pfds.ext) /\ NoError
    /\ pfds' = [pfds EXCEPT !.sig = FALSE, !.bt = ""]
    /\ fwd' = <<>> /\ notes' = <<>>
    /\ UNCHANGED <<role, conn, t, reader, timeout, cancelstate, hist>>

\* Lines 825-828: POLLERR or POLLHUP on the socket.
BtHup ==
    /\ pc = "hup"
    /\ GotoIoError("ECONNRESET")
    /\ NoOutput
    /\ UNCHANGED <<role, conn, t, reader, pfds, timeout, cancelstate, hist>>

(***************************************************************************)
(* rfcomm_read_at() at the read label, with the EBADMSG case of the loop.  *)
(***************************************************************************)
\* A parse whose failure leaves the cursor at the rejected text.
ParseAtKeepCursor(buf) ==
    IF Head(buf) = BadMsg
    THEN /\ reader' = [reader EXCEPT !.next = buf]
         /\ pc' = "loop"
         /\ hist' = OffScript(hist)
    ELSE /\ reader' = [at |-> Head(buf), next |-> Tail(buf)]
         /\ pc' = "dispatch"
         /\ hist' = Noisy(hist)

\* The second half of rfcomm_read_at(): at_parse() of the text at msg.  A rejected
\* text leaves reader->next at it, and the loop then sets reader.next = NULL.
ParseAt(buf) ==
    IF Head(buf) = BadMsg
    THEN /\ reader' = [reader EXCEPT !.next = <<>>]
         /\ pc' = "loop"
         /\ hist' = OffScript(hist)
    ELSE /\ reader' = [at |-> Head(buf), next |-> Tail(buf)]
         /\ pc' = "dispatch"
         /\ hist' = Noisy(hist)

\* A reader that reads the socket on every call.
MustReadAlways(rd) == TRUE

\* msg = reader->next; the socket is read only if (msg == NULL).
MustRead(rd) == rd.next = <<>>

\* read() fails, with EINTR retried inside.
ReadFails ==
    /\ pc = "read"
    /\ MustRead(reader)
    /\ \E e \in IoErrnos : GotoIoError(e)
    /\ hist' = OffScript(hist)
    /\ NoOutput
    /\ UNCHANGED <<role, conn, t, reader, pfds, timeout, cancelstate>>

\* read() returns 0: the peer has closed the connection.
ReadEof ==
    /\ pc = "read"
    /\ MustRead(reader)
    /\ GotoIoError("ECONNRESET")
    /\ hist' = OffScript(hist)
    /\ NoOutput
    /\ UNCHANGED <<role, conn, t, reader, pfds, timeout, cancelstate>>

\* read() fills the buffer with a batch, or the rest of the last batch is parsed.
ReadAt ==
    /\ pc = "read"
    /\ IF MustRead(reader) THEN \E b \in Batches(role) : ParseAt(b) ELSE ParseAt(reader.next)
    /\ NoOutput
    /\ UNCHANGED <<role, conn, t, pfds, timeout, cancelstate>>
    /\ NoError

(***************************************************************************)
(* Lines 795-822: choice of the callback, forwarding, the call, the NACK.  *)
(***************************************************************************)
\* conn.handler != NULL && conn.handler->type == at.type && command equal
Predefined(c, at) == c.handler # NoHandler /\ HandlerMatches(c.handler, at)

\* A dispatch that sees no external handler, whatever pfds[2].fd holds.
ForwardFdNone(p, tt) == -1

\* The descriptor the dispatch forwards to and tests against -1: pfds[2].fd.
ForwardFd(p, tt) == p.fd2

\* Whether the message is answered ERROR when nothing handles it.
NackWanted(at) == at.type # AT_TYPE_RESP

Dispatch ==
    /\ pc = "dispatch"
    /\ LET at == reader.at
           hit == Predefined(conn, at)
           cb == IF hit THEN conn.handler.callback ELSE rfcomm_get_callback(at)
           c1 == IF hit THEN [conn EXCEPT !.handler = NoHandler] ELSE conn
           xfd == ForwardFd(pfds, t)
           on == Route("", pfds.ext)
       IN /\ fwd' = IF xfd # -1 /\ ~hit THEN <<xfd>> ELSE <<>>
          /\ IF cb # NULL
             THEN \E r \in { Call(cb, c1, t, at, f[1], f[2]) : f \in Fates } :
                    /\ r.c.state <= MaxState
                    /\ conn' = r.c
                    /\ t' = r.t
                    /\ wr' = r.wr
                    /\ notes' = r.notes
                    /\ IF r.rc = -1
                       THEN /\ GotoIoError(r.errno)
                            /\ hist' = OffScript(HistDispatch(hist, at, hit, r.notes))
                       ELSE /\ pc' = on /\ NoError
                            /\ hist' = HistDispatch(hist, at, hit, r.notes)
             ELSE /\ conn' = c1
                  /\ notes' = <<>>
                  /\ hist' = HistDispatch(hist, at, hit, <<>>)
                  /\ UNCHANGED t
                  /\ IF xfd = -1 /\ NackWanted(at)
                     THEN \/ wr' = <<RespERROR>> /\ pc' = on /\ NoError
                          \/ wr' = <<>> /\ \E e \in IoErrnos : GotoIoError(e)
                     ELSE wr' = <<>> /\ pc' = on /\ NoError
    /\ reader' = [reader EXCEPT !.at = NoAt]
    /\ UNCHANGED <<role, pfds, timeout, cancelstate>>

(***************************************************************************)
(* Lines 830-858: the external handler's descriptor.                       *)
(***************************************************************************)
\* A failure of the external handler's descriptor that is taken to the ioerror
\* label, as a failure of the socket is.
ExtDetachViaIoError ==
    /\ pc = "ext"
    /\ t' = [t EXCEPT !.handler_fd = -1]
    /\ GotoIoError("ECONNRESET")
    /\ NoOutput
    /\ UNCHANGED <<role, conn, reader, pfds, timeout, cancelstate, hist>>

\* read() gives no bytes or fails, or the descriptor hung up: ioerror_exthandler,
\* close(t->rfcomm.handler_fd); t->rfcomm.handler_fd = -1; continue.
ExtDetach ==
    /\ pc = "ext"
    /\ t' = [t EXCEPT !.handler_fd = -1]
    /\ pc' = "loop"
    /\ NoOutput
    /\ UNCHANGED <<role, conn, reader, pfds, timeout, cancelstate, hist>>
    /\ NoError

\* read() of the external handler gives bytes, which go to the peer as a raw message.
ExtRelay ==
    /\ pc = "ext"
    /\ pfds.ext = "POLLIN"
    /\ \/ wr' = <<At(AT_TYPE_RAW, "raw", "")>> /\ pc' = "loop" /\ NoError
       \/ wr' = <<>> /\ \E e \in IoErrnos : GotoIoError(e)
    /\ fwd' = <<>> /\ notes' = <<>>
    /\ UNCHANGED <<role, conn, t, reader, pfds, timeout, cancelstate, hist>>

Next ==
    \/ SlcStep \/ PollEnter \/ PollTimeout \/ PollEintr \/ PollError \/ PollReady
    \/ Cancel \/ Signal \/ BtHup \/ ReadFails \/ ReadEof \/ ReadAt \/ Dispatch
    \/ ExtDetach \/ ExtRelay

Spec == Init /\ [][Next]_vars

(***************************************************************************)
(* The dispatch of a +CIND value response alone: the HF has sent AT+CIND?  *)
(* and expects the values, with any indicator map an AG's list can have    *)
(* left and any of the value lists below.                                  *)
(***************************************************************************)
IndMaps == [1..Len(ZeroIndMap) -> {HFP_IND_NULL, HFP_IND_CALL, HFP_IND_BATTCHG}]

CindValues == {"0,3", "3,0", "5,1", "4,5", "2,5,1", "1,0,4", "5", "2"}

InitCind ==
    /\ role = "HF"
    /\ \E map \in IndMaps :
           conn = [state |-> HFP_SLC_CIND_TEST_OK, state_prev |-> HFP_SLC_CIND_TEST_OK,
                   retries |-> 1, handler |-> rfcomm_handler_cind_resp_get, msbc |-> FALSE,
                   hfp_ind_map |-> map]
    /\ \E fd \in {-1, ExtFd} :
           /\ t = [hfp_features |-> 0, codec |-> HFP_CODEC_CVSD, handler_fd |-> fd,
                   hfp_inds |-> ZeroInds, battery_level |-> -1]
           /\ pfds = [fd2 |-> fd, sig |-> FALSE, bt |-> "", ext |-> ""]
    /\ \E v \in CindValues : reader = [at |-> At(AT_TYPE_RESP, "+CIND", v), next |-> <<>>]
    /\ timeout = -1
    /\ cancelstate = "DISABLE"
    /\ pc = "dispatch"
    /\ errno = ""
    /\ wr = <<>>
    /\ fwd = <<>>
    /\ notes = <<>>
    /\ hist = [silent |-> FALSE, sent |-> 1, script |-> -1, snotes |-> 0, last_hit |-> NoAt,
               waited |-> TRUE]

NextCind == Dispatch

SpecCind == InitCind /\ [][NextCind]_vars

(***************************************************************************)
(* The first half of rfcomm_read_at() alone, lines 58-76, with the bytes   *)
(* counted: one read() into reader->buffer and the terminator written      *)
(* behind the bytes received.  The AG's thread is at the read label of its *)
(* first iteration; reader.nul is the index of buffer[] at which the '\0'  *)
(* was written (-1 before any read).                                       *)
(***************************************************************************)
\* sizeof(reader->buffer), the count passed to read().
BufferSize == 256

InitRead ==
    /\ role = "AG"
    /\ conn = [state |-> HFP_DISCONNECTED, state_prev |-> HFP_DISCONNECTED, retries |-> 0,
               handler |-> NoHandler, msbc |-> FALSE,
               hfp_ind_map |-> ZeroIndMap]
    /\ \E fd \in {-1, ExtFd} :
           /\ t = [hfp_features |-> 0, codec |-> HFP_CODEC_UNDEFINED, handler_fd |-> fd,
                   hfp_inds |-> ZeroInds, battery_level |-> -1]
           /\ pfds = [fd2 |-> fd, sig |-> FALSE, bt |-> "", ext |-> ""]
    /\ reader = [at |-> NoAt, next |-> <<>>, nul |-> -1]
    /\ timeout = -1
    /\ cancelstate = "DISABLE"
    /\ pc = "read"
    /\ errno = ""
    /\ wr = <<>>
    /\ fwd = <<>>
    /\ notes = <<>>
    /\ hist = [silent |-> FALSE, sent |-> 0, script |-> -1, snotes |-> 0, last_hit |-> NoAt,
               waited |-> TRUE]

\* read() returns -1 with an errno other than EINTR: return -1.
ReadBufferFails ==
    /\ pc = "read"
    /\ MustRead(reader)
    /\ \E e \in IoErrnos : GotoIoError(e)
    /\ NoOutput
    /\ UNCHANGED <<role, conn, t, reader, pfds, timeout, cancelstate, hist>>

\* read() returns 0: errno = ECONNRESET; return -1.
ReadBufferEof ==
    /\ pc = "read"
    /\ MustRead(reader)
    /\ GotoIoError("ECONNRESET")
    /\ NoOutput
    /\ UNCHANGED <<role, conn, t, reader, pfds, timeout, cancelstate, hist>>

\* read() returns len bytes, any count from 1 to the count asked for;
\* buffer[len] = '\0'; msg = buffer; and at_parse() comes next.
ReadBuffer ==
    /\ pc = "read"
    /\ MustRead(reader)
    /\ \E len \in 1..BufferSize : reader' = [reader EXCEPT !.nul = len]
    /\ pc' = "parse"
    /\ NoOutput
    /\ UNCHANGED <<role, conn, t, pfds, timeout, cancelstate, hist>>
    /\ NoError

NextRead == ReadBufferFails \/ ReadBufferEof \/ ReadBuffer

SpecRead == InitRead /\ [][NextRead]_vars

(***************************************************************************)
(* The dispatch of an indicator event alone: the HF's connection is        *)
(* established, the indicator map is any an AG's list can have left, and   *)
(* the AG sends +CIEV with one of the values below.                        *)
(***************************************************************************)
CievValues == {"1,1", "2,3", "0,1", "3,1", "2"}

InitCiev ==
    /\ role = "HF"
    /\ \E map \in IndMaps :
           conn = [state |-> HFP_CONNECTED, state_prev |-> HFP_CONNECTED,
                   retries |-> 0, handler |-> NoHandler, msbc |-> FALSE,
                   hfp_ind_map |-> map]
    /\ \E fd \in {-1, ExtFd} :
           /\ t = [hfp_features |-> 0, codec |-> HFP_CODEC_CVSD, handler_fd |-> fd,
                   hfp_inds |-> ZeroInds, battery_level |-> -1]
           /\ pfds = [fd2 |-> fd, sig |-> FALSE, bt |-> "", ext |-> ""]
    /\ \E v \in CievValues : reader = [at |-> At(AT_TYPE_RESP, "+CIEV", v), next |-> <<>>]
    /\ timeout = -1
    /\ cancelstate = "DISABLE"
    /\ pc = "dispatch"
    /\ errno = ""
    /\ wr = <<>>
    /\ fwd = <<>>
    /\ notes = <<>>
    /\ hist = [silent |-> FALSE, sent |-> 0, script |-> -1, snotes |-> 0, last_hit |-> NoAt,
               waited |-> TRUE]

NextCiev == Dispatch

SpecCiev == InitCiev /\ [][NextCiev]_vars

TypeOK ==
    /\ role \in {"HF", "AG"}
    /\ conn.state \in 0..MaxState
    /\ conn.retries \in 0..(RFCOMM_SLC_RETRIES + 1)
    /\ pc \in {"loop", "poll", "wait", "signal", "hup", "read", "dispatch", "ext",
               "done", "cancelled"}

(***************************************************************************)
(* Properties.                                                             *)
(***************************************************************************)
\* C1: SLC state monotonicity.  In either role, whatever is received and however
\* the waits end, no step of the thread lowers conn.state: every change a handler
\* or the state-machine step makes goes to a greater state of the enumeration.
C1_StateMonotonic == [][conn'.state >= conn.state]_vars

\* A run in which handlers and the state-machine step have raised the state all the
\* way: the step has just set HFP_CONNECTED from a smaller state.
C1_Witness == conn.state = HFP_CONNECTED /\ conn.state_prev < conn.state

\* C2: end-to-end HF establishment with an AG that negotiates the codec.  Once the
\* whole conformant sequence (+BRSF, OK, OK for AT+BAC, +CIND test answer, OK, +CIND
\* values, OK, OK for AT+CMER, +BCS, OK for AT+BCS) has been dispatched in this
\* order, the sampling/codec notification has been emitted exactly once.
C2_NotifiedOnce == hist.script = Len(E2EScript) => hist.snotes = 1

\* C3 as stated: replay idempotence.  A response dispatched right after the same
\* response was taken by the expected handler (a duplicate of an already satisfied
\* step's response) leaves conn.state as it is and emits no notification.
C3_ReplayIsNoop ==
    [][(pc = "dispatch" /\ reader.at.type = AT_TYPE_RESP /\ reader.at = hist.last_hit)
          => (conn'.state = conn.state /\ notes' = <<>>)]_vars

\* C3, amended: a response of a handshake step (a plain result code, +BRSF or +CIND)
\* dispatched while no expected handler for its type and command is pending changes
\* neither conn.state nor the expected handler, emits no notification and writes
\* nothing, wherever in the handshake it arrives; this covers the second OK for
\* AT+CMER.
C3_UnexpectedResponseIsNoop ==
    [][(pc = "dispatch" /\ reader.at.type = AT_TYPE_RESP
          /\ reader.at.command \in {"", "+BRSF", "+CIND"}
          /\ ~Predefined(conn, reader.at))
          => (conn'.state = conn.state /\ conn'.handler = conn.handler
                /\ notes' = <<>> /\ wr' = <<>>)]_vars

\* A second OK is about to be dispatched after the HF's AT+CMER was acknowledged,
\* with no expected handler pending.
C3_Witness ==
    /\ pc = "dispatch" /\ role = "HF"
    /\ reader.at = RespOK /\ hist.last_hit = RespOK
    /\ conn.state_prev = HFP_SLC_CMER_SET_OK
    /\ conn.state \in {HFP_SLC_CONNECTED, HFP_CONNECTED}
    /\ ~Predefined(conn, reader.at)

\* C4: retry ceiling.  In HF role with a peer that never sends and every wait
\* ended by its timeout, the pending command is written at most
\* RFCOMM_SLC_RETRIES + 1 times, and the thread ends only with ETIMEDOUT and only
\* after exactly that many writes.
C4_RetryCeiling ==
    (role = "HF" /\ hist.silent)
        => /\ hist.sent <= RFCOMM_SLC_RETRIES + 1
           /\ pc = "done" => (errno = "ETIMEDOUT" /\ hist.sent = RFCOMM_SLC_RETRIES + 1)

\* The HF thread has ended against a silent peer.
C4_Witness == role = "HF" /\ hist.silent /\ pc = "done"

C6_ConnectedOnlyAfterAck ==
    [][(role = "AG" /\ HasBit(t.hfp_features, HFP_HF_FEAT_CODEC)
          /\ conn.state < HFP_CONNECTED /\ conn'.state >= HFP_CONNECTED)
          => conn.state = HFP_CC_BCS_SET_OK]_vars

\* C7: codec mismatch in AG role.  While the AG, not yet at HFP_CONNECTED, waits for
\* the codec acknowledgement, an AT+BCS=<n> with n other than the selected codec is
\* answered ERROR; conn.state stays as it is, before HFP_CONNECTED; the thread goes
\* on and no notification is emitted.  (When the write of the ERROR itself fails the step ends at ioerror,
\* still without a change of state or a notification.)
C7_CodecMismatch ==
    [][(role = "AG" /\ pc = "dispatch"
          /\ conn.handler = rfcomm_handler_bcs_set /\ conn.state < HFP_CONNECTED
          /\ reader.at.type = AT_TYPE_CMD_SET /\ reader.at.command = "+BCS"
          /\ Atoi(reader.at.value) # t.codec)
          => /\ conn'.state = conn.state
             /\ notes' = <<>>
             /\ \/ wr' = <<RespERROR>> /\ errno' = "" /\ pc' \in {"loop", "ext"}
                \/ wr' = <<>> /\ errno' \in IoErrnos]_vars

\* The AG has offered CVSD and the HF's AT+BCS=2 is about to be dispatched.
C7_Witness ==
    /\ role = "AG" /\ pc = "dispatch"
    /\ conn.handler = rfcomm_handler_bcs_set /\ conn.state = HFP_SLC_CONNECTED
    /\ reader.at = At(AT_TYPE_CMD_SET, "+BCS", "2") /\ t.codec = HFP_CODEC_CVSD

C9_CancelOnlyInWait ==
    pc \in {"loop", "signal", "hup", "read", "dispatch", "ext"} => cancelstate = "DISABLE"

\* C10: unsupported messages.  A dispatched message with no expected and no static
\* handler, while the transport has no external handler (handler_fd is -1), is
\* answered ERROR (unless that write fails) when it is not a response, and nothing
\* is written when it is one; messages buffered before the handler went included.
C10_UnsupportedNack ==
    [][(pc = "dispatch" /\ t.handler_fd = -1
          /\ ~Predefined(conn, reader.at) /\ rfcomm_get_callback(reader.at) = NULL)
          => IF reader.at.type # AT_TYPE_RESP
             THEN wr' = <<RespERROR>> \/ (wr' = <<>> /\ errno' # "")
             ELSE wr' = <<>>]_vars

C12_ParseFailureClearsCursor ==
    /\ [][(pc = "read" /\ pc' # "dispatch" /\ errno' = "")
            => (pc' = "loop" /\ reader'.next = <<>> /\ conn' = conn /\ wr' = <<>>)]_vars
    /\ [][(pc = "read" /\ reader.next # <<>> /\ Head(reader.next) = BadMsg)
            => (pc' = "loop" /\ reader'.next = <<>> /\ conn' = conn /\ errno' = "")]_vars

\* The rest of a batch, about to be parsed, starts with text that is not a message.
C12_Witness == pc = "read" /\ reader.next # <<>> /\ Head(reader.next) = BadMsg

\* C13: external-handler isolation.  A step at the external handler's descriptor
\* that relays nothing and raises no socket error (its read() failed or returned 0),
\* and every step taken on a hang-up of that descriptor, leaves handler_fd at -1 and
\* the thread at the top of the loop, not ended, with the connection record and the
\* buffered messages as they were.
C13_ExtFailureDetaches ==
    [][(pc = "ext" /\ (pfds.ext = "POLLHUP" \/ (wr' = <<>> /\ errno' = "")))
          => /\ t'.handler_fd = -1
             /\ pc' = "loop" /\ errno' = ""
             /\ conn' = conn /\ reader' = reader]_vars

\* The handler has just been detached: handler_fd is -1 while pfds[2].fd still holds
\* the descriptor, and the loop is at its next iteration.
C13_Witness == pc = "loop" /\ t.handler_fd = -1 /\ pfds.fd2 = ExtFd /\ errno = ""

\* C14: indicator mapping.  When a +CIND value response v1,...,vk is dispatched to
\* the handler that expects it, every indicator kind some position i <= k of the map
\* names ends with the value of the last such position, the other kinds keep their
\* values; when the battery charge is among them the battery level ends at that
\* value * 100 / 5 and one battery notification is emitted for each of its positions,
\* and otherwise the level is unchanged and no notification is emitted.
C14_IndicatorMapping ==
    [][(pc = "dispatch" /\ conn.handler = rfcomm_handler_cind_resp_get
          /\ reader.at.type = AT_TYPE_RESP /\ reader.at.command = "+CIND")
          => LET map == conn.hfp_ind_map
                 vs == Fields(reader.at.value)
                 n == IF Len(map) < Len(vs) THEN Len(map) ELSE Len(vs)
                 at(kind) == { i \in 1..n : map[i] = kind }
                 last(kind) == CHOOSE i \in at(kind) : \A j \in at(kind) : j <= i
             IN /\ \A kind \in DOMAIN t.hfp_inds :
                      t'.hfp_inds[kind] = IF at(kind) = {} THEN t.hfp_inds[kind]
                                          ELSE Atoi(vs[last(kind)])
                /\ t'.battery_level = IF at(HFP_IND_BATTCHG) = {} THEN t.battery_level
                                      ELSE (Atoi(vs[last(HFP_IND_BATTCHG)]) * 100) \div 5
                /\ notes' = [i \in 1..Cardinality(at(HFP_IND_BATTCHG)) |-> UPDATE_BATTERY]]_vars

\* The map (call, battchg) and the values 0,3 have given call = 0, battchg = 3 and
\* the battery level 60, with its notification.
C14_Witness ==
    /\ conn.hfp_ind_map = <<HFP_IND_CALL, HFP_IND_BATTCHG>>
    /\ t.hfp_inds[HFP_IND_CALL] = 0 /\ t.hfp_inds[HFP_IND_BATTCHG] = 3
    /\ t.battery_level = 60 /\ notes = <<UPDATE_BATTERY>>

\* C15: handshake ordering.  In either role no step takes conn.state from below the
\* completion of a mandatory step (feature exchange, indicator test, indicator get,
\* event reporting) to beyond it: every mandatory step is landed on before the state
\* goes further, and so before HFP_CONNECTED.
C15_NoMandatoryStepSkipped ==
    [][\A m \in {HFP_SLC_BRSF_SET_OK, HFP_SLC_CIND_TEST_OK, HFP_SLC_CIND_GET_OK,
                 HFP_SLC_CMER_SET_OK} :
          ~(conn.state < m /\ conn'.state > m)]_vars

\* C16: state range and stability.  conn.state is always one of the enumerated
\* states HFP_DISCONNECTED .. HFP_CONNECTED (so that a connection at HFP_CONNECTED,
\* the last of them, can only stay there).
C16_StateInRange == conn.state \in HFP_DISCONNECTED..HFP_CONNECTED

\* C17: dispatch precedence.  A message dispatched while an expected handler is
\* installed clears that handler if its type and command equal the message's, and
\* otherwise leaves it installed for the messages that follow.
C17_ExpectedHandlerKept ==
    [][(pc = "dispatch" /\ conn.handler # NoHandler)
          => conn'.handler = IF Predefined(conn, reader.at) THEN NoHandler ELSE conn.handler]_vars

\* C18: negotiation rejection.  In the HF role, when ERROR is dispatched while
\* the answer to a handshake command (AT+BRSF, AT+BAC, AT+CIND=?, AT+CIND?,
\* AT+CMER) is pending, the thread ends, so the command is not sent again.
C18_ErrorEndsHandshake ==
    [][(/\ pc = "dispatch" /\ role = "HF" /\ reader.at = RespERROR
        /\ conn.handler # NoHandler
        /\ conn.state \in {HFP_DISCONNECTED, HFP_SLC_BRSF_SET_OK, HFP_SLC_BAC_SET_OK,
                           HFP_SLC_CIND_TEST_OK, HFP_SLC_CIND_GET_OK})
          => pc' = "done"]_vars

\* C19: forwarding only when unresolved.  A dispatched message is written to the
\* external handler only if neither the expected handler nor the static table has
\* a callback for it.
C19_ForwardedOnlyUnresolved ==
    [][(pc = "dispatch" /\ fwd' # <<>>)
          => (~Predefined(conn, reader.at) /\ rfcomm_get_callback(reader.at) = NULL)]_vars

\* C20: single blocking point.  The external handler's descriptor is read (and
\* closed on failure) only in an iteration whose poll() has returned; an iteration
\* that went to the read label with buffered messages does not come to that read.
C20_ExtReadOnlyAfterWait == pc = "ext" => hist.waited

\* C21: timeouts drive retries.  An iteration that follows a wait ended by
\* readiness (a signal, a message, data of the external handler) and finds the
\* state as the last step left it neither counts a retry nor writes the pending
\* command again.
C21_RetryOnlyAfterTimeout ==
    [][(pc = "loop" /\ hist.waited /\ conn.state = conn.state_prev)
          => (conn'.retries = conn.retries /\ wr' = <<>>)]_vars

\* C22: handshake liveness against a silent peer.  In the HF role every wait
\* entered before the state is HFP_CONNECTED has a timeout, so that a peer that
\* stops sending cannot keep the thread waiting for ever.
C22_HandshakeWaitBounded ==
    (role = "HF" /\ pc = "wait" /\ conn.state < HFP_CONNECTED) => timeout # -1

\* C23: read buffer bound.  Whatever count the read of the socket returns, the
\* terminator written behind the bytes received is at an index of the buffer,
\* 0 .. BufferSize - 1.
C23_TerminatorInsideBuffer == pc = "parse" => reader.nul \in 0..(BufferSize - 1)

\* C24: indicator event index bound.  An indicator event whose index is 0 or
\* greater than the size of the map stores no indicator value, sets no battery
\* level and emits nothing: the map is used only at positions inside it.
C24_EventIndexInsideMap ==
    [][(/\ pc = "dispatch" /\ reader.at.type = AT_TYPE_RESP /\ reader.at.command = "+CIEV"
        /\ Len(Fields(reader.at.value)) >= 2
        /\ Atoi(Fields(reader.at.value)[1]) \notin 1..Len(conn.hfp_ind_map))
          => (t' = t /\ notes' = <<>>)]_vars

====
